---- MODULE Spec2Model ----
(***************************************************************************)
(* A state-machine model of GlobalModel (src/model.py): the tabulated rate *)
(* functions built by load_chemistry, the derivative f_dy of the state     *)
(* (T_e, T_g, n_e, n_g), the integration solve and the drive-current sweep *)
(* solve_for_I_coil.                                                       *)
(*                                                                         *)
(* The definitions from gas_heating to solve_for_I_coil (lines 185-295) are *)
(* read as methods of GlobalModel, as their self parameter and their       *)
(* callers (self.gas_heating, self.f_dy, self.solve) use them.             *)
(*                                                                         *)
(* Floating-point quantities are abstracted to small integers in units in  *)
(* which k, e, m_e and pi are 1.  A State is a record [fin, v]: fin is     *)
(* FALSE for a vector holding NaN/Inf, v is <<T_e, T_g, n_e, n_g>>.        *)
(***************************************************************************)
EXTENDS Integers, Sequences, FiniteSets, TLC

\* ---------------------------------------------------------------- bounds
MaxLen == 2        \* longest drive-current array handed to the sweep
MaxCur == 2        \* drive-current samples are 2 * (0..MaxCur)
NSteps == 2        \* accepted solver steps from t0 to the horizon tf
StiffLimit == 20   \* largest derivative magnitude the solver's error test accepts

\* ------------------------------------------------------ program constants
GridLo == 1        \* lowest grid temperature  (0.1 eV)
GridHi == 3        \* highest grid temperature (100 eV)
E_iz == 12         \* ionization threshold (12.127 eV)
E_ex == 11         \* excitation threshold (11.6 eV)

Grid == GridLo..GridHi
OutOfGrid == {GridLo - 1, GridHi + 1}
Channels == {"K_el", "K_ex", "K_iz"}

Sgn(x) == IF x > 0 THEN 1 ELSE IF x < 0 THEN -1 ELSE 0
Abs(x) == IF x < 0 THEN -x ELSE x
Sq(x) == x * x

\* ------------------------------------------- cross sections (data files)
\* load_cross_section: energies and (doubled) cross sections per channel.
CsEnergy == <<1, 2, 3>>
CrossSection(ch) ==
    CASE ch = "K_el" -> <<2, 2, 2>>
      [] ch = "K_ex" -> <<0, 2, 2>>
      [] ch = "K_iz" -> <<0, 0, 2>>

\* ------------------------------------------------------------ rate tables
\* The Maxwellian weight exp(-m v^2 / (2 e T)) of the integrand, to one bit.
Boltzmann(E, T) == IF E <= T THEN 1 ELSE 0

RECURSIVE Trapezoid(_, _, _)
\* scipy.integrate.trapezoid(f, x = v) from sample j on.
Trapezoid(f, v, j) ==
    IF j >= Len(f) THEN 0
    ELSE ((f[j] + f[j + 1]) * (v[j + 1] - v[j])) \div 2 + Trapezoid(f, v, j + 1)

\* rate_constant: one quadrature per grid temperature, the same for each channel.
rate_constant(T_grid, E, cs) ==
    [T \in T_grid |->
        LET v == E
            f == [j \in 1..Len(cs) |-> cs[j] * Boltzmann(E[j], T)]
        IN  Trapezoid(f, v, 1)]

\* interp1d(T, k_array, fill_value = (lo, hi), bounds_error = b): the object built.
interp1d(k_array, fill_value, bounds_error) ==
    [tab |-> k_array, fill |-> fill_value, bounds_error |-> bounds_error]

\* Calling an interp1d object at temperature T: [err, val].  Out of the grid the
\* bounds check comes first and raises ValueError when bounds_error is set; the
\* fill values are used only when it is not.
Rate(K, T) ==
    IF T \in DOMAIN K.tab THEN [err |-> "", val |-> K.tab[T]]
    ELSE IF K.bounds_error THEN [err |-> "ValueError", val |-> 0]
    ELSE [err |-> "", val |-> IF T < GridLo THEN K.fill[1] ELSE K.fill[2]]

BuildRate(ch, bounds_error) ==
    LET k_array == rate_constant(Grid, CsEnergy, CrossSection(ch))
    IN  interp1d(k_array, <<k_array[GridLo], k_array[GridHi]>>, bounds_error)

\* load_chemistry with the ionization channel built with bounds_error = False.
load_chemistry_mixed ==
    [K_el |-> BuildRate("K_el", TRUE),
     K_ex |-> BuildRate("K_ex", TRUE),
     K_iz |-> BuildRate("K_iz", FALSE)]

\* load_chemistry: the three rate functions stored on the model.
load_chemistry ==
    [K_el |-> BuildRate("K_el", TRUE),
     K_ex |-> BuildRate("K_ex", TRUE),
     K_iz |-> BuildRate("K_iz", TRUE)]

\* ----------------------------------------------------------- environment
\* The source never binds K_diss, E_diss, K_vibr, E_vibr, K_rot, E_rot: ext is
\* FALSE for the model exactly as __init__ leaves it and TRUE once a caller has
\* bound them before solving.  nanFails is what
\* the LSODA solver does with a non-finite derivative: give up with status -1
\* (TRUE) or accept the step and carry NaN along (FALSE).
Envs == [ext : BOOLEAN, nanFails : BOOLEAN]

\* A caller-bound extended-chemistry rate (no air chemistry in xenon) and threshold.
K_ext(T) == 0
E_ext(T) == 1

\* ------------------------------------------------- auxiliary_funcs helpers
pressure(T, Q, v, A) == (Q * T) \div (v * A)
maxwellian_flux_speed(T, m_i) == 1
u_B(T_e, m_i) == 1
A_eff(n_g, R, L) == 1
A_eff_1(n_g, R, L, beta_i) == 1
SIGMA_I == 1
R_ind(R, L, N, omega, n_e, n_g, nu) == n_e * nu

\* ------------------------------------------------------------ load_config
\* The configuration mappings considered: every key load_config reads.
ConfigDicts ==
    [R : {1}, L : {3}, m_i : {2}, Q_g : 0..2, beta_g : {1}, kappa : {1},
     beta_i : {1}, V_grid : {1}, omega : {1}, N : {1}, R_coil : 0..1,
     I_coil : {2, 4}, T_e_0 : {1, 2}, n_e_0 : 0..2, T_g_0 : {1}]

A_g(m) == m.beta_g * Sq(m.R)
V(m) == Sq(m.R) * m.L
A(m) == 2 * Sq(m.R) + 2 * m.R * m.L

\* load_config: the fields copied from config_dict, and the derived n_g_0.
load_config(c) ==
    [R |-> c.R, L |-> c.L, m_i |-> c.m_i, Q_g |-> c.Q_g, beta_g |-> c.beta_g,
     kappa |-> c.kappa, beta_i |-> c.beta_i, V_grid |-> c.V_grid,
     omega |-> c.omega, N |-> c.N, R_coil |-> c.R_coil, I_coil |-> c.I_coil,
     T_e_0 |-> c.T_e_0, n_e_0 |-> c.n_e_0, T_g_0 |-> c.T_g_0,
     n_g_0 |-> pressure(c.T_g_0, c.Q_g, maxwellian_flux_speed(c.T_g_0, c.m_i),
                        A_g(c)) \div c.T_g_0]

\* __init__: load_chemistry, then load_config; nothing else is bound or checked.
GlobalModel(c) == [chem |-> load_chemistry, cfg |-> load_config(c)]

\* ------------------------------------------------------------ the physics
Finite(v) == [fin |-> TRUE, v |-> v]
NaNState == [fin |-> FALSE, v |-> <<0, 0, 0, 0>>]
NaNPower == [fin |-> FALSE, v |-> 0]

Kv(m, ch, T) == Rate(m.chem[ch], T).val
Ke(m, ch, T) == Rate(m.chem[ch], T).err

particle_balance_e(m, T_e, T_g, n_e, n_g) ==
    LET a == n_e * n_g * Kv(m, "K_iz", T_e)
        b == (n_e * u_B(T_e, m.cfg.m_i) * A_eff(n_g, m.cfg.R, m.cfg.L)) \div V(m.cfg)
    IN  a - b

particle_balance_g(m, T_e, T_g, n_e, n_g) ==
    LET a == m.cfg.Q_g \div V(m.cfg)
        b == (n_e * u_B(T_e, m.cfg.m_i)
                  * A_eff_1(n_g, m.cfg.R, m.cfg.L, m.cfg.beta_i)) \div V(m.cfg)
        c == n_e * n_g * Kv(m, "K_iz", T_e)
        d == (n_g * maxwellian_flux_speed(T_g, m.cfg.m_i) * A_g(m.cfg))
                 \div (4 * V(m.cfg))
    IN  a + b - c - d

P_abs(m, T_e, n_e, n_g) ==
    (R_ind(m.cfg.R, m.cfg.L, m.cfg.N, m.cfg.omega, n_e, n_g, Kv(m, "K_el", T_e))
        * Sq(m.cfg.I_coil)) \div 2

P_loss(m, T_e, T_g, n_e, n_g) ==
    LET a == E_iz * n_e * n_g * Kv(m, "K_iz", T_e)
        b == E_ex * n_e * n_g * Kv(m, "K_ex", T_e)
        c == (3 * (T_e - T_g) * n_e * n_g * Kv(m, "K_el", T_e)) \div m.cfg.m_i
        d == (7 * T_e * n_e * u_B(T_e, m.cfg.m_i) * A_eff(n_g, m.cfg.R, m.cfg.L))
                 \div V(m.cfg)
        e == E_ext(T_e) * n_e * n_g * K_ext(T_e)
        f == E_ext(T_e) * n_e * n_g * K_ext(T_e)
    IN  a + b + c + d + e + f

gas_heating(m, T_e, T_g, n_e, n_g) ==
    LET a == (3 * (T_e - T_g) * n_e * n_g * Kv(m, "K_el", T_e)) \div m.cfg.m_i
        b == (m.cfg.m_i * Sq(u_B(T_e, m.cfg.m_i)) * n_e * n_g * SIGMA_I
                  * maxwellian_flux_speed(T_g, m.cfg.m_i)) \div 4
        c == E_ext(T_e) * n_e * n_g * K_ext(T_e)
        d == E_ext(T_e) * n_e * n_g * K_ext(T_e)
        e == E_ext(T_e) * n_e * n_g * K_ext(T_e)
        f == (m.cfg.kappa * (T_g - m.cfg.T_g_0) * A(m.cfg)) \div V(m.cfg)
    IN  a + b + c + d + e - f

\* P_rf: the power delivered by the coil, with the coil's own resistance.
P_rfValue(m, T_e, T_g, n_e, n_g) ==
    ((R_ind(m.cfg.R, m.cfg.L, m.cfg.N, m.cfg.omega, n_e, n_g, Kv(m, "K_el", T_e))
        + m.cfg.R_coil) * Sq(m.cfg.I_coil)) \div 2

\* P_rf on a final State: [exc, p].  K_el is evaluated first and may raise.
P_rf(m, y) ==
    IF ~y.fin THEN [exc |-> "", p |-> NaNPower]
    ELSE IF Ke(m, "K_el", y.v[1]) # "" THEN [exc |-> Ke(m, "K_el", y.v[1]), p |-> NaNPower]
    ELSE [exc |-> "", p |-> Finite(P_rfValue(m, y.v[1], y.v[2], y.v[3], y.v[4]))]

\* The first exception an evaluation of f_dy at y raises, in the order the code
\* evaluates: K_iz (particle balances), K_el (P_abs), K_iz, K_ex, K_el (P_loss),
\* then the unbound self.K_diss.  A NaN temperature passes the bounds check.
f_dy_exc(m, en, y) ==
    LET T_e == y.v[1]
        errs == IF y.fin THEN <<Ke(m, "K_iz", T_e), Ke(m, "K_el", T_e),
                                Ke(m, "K_ex", T_e)>> ELSE <<>>
        hit == {j \in 1..Len(errs) : errs[j] # ""}
    IN  IF hit # {} THEN errs[CHOOSE j \in hit : \A h \in hit : j <= h]
        ELSE IF ~en.ext THEN "AttributeError"
        ELSE ""

\* f_dy: [kind, exc, d].  kind is "raise" with the exception, "nan" when the
\* vector returned holds NaN/Inf (a division by a zero density), else "ok".
f_dy(m, en, y) ==
    LET T_e == y.v[1]
        T_g == y.v[2]
        n_e == y.v[3]
        n_g == y.v[4]
        exc == f_dy_exc(m, en, y)
    IN  IF exc # "" THEN [kind |-> "raise", exc |-> exc, d |-> <<0, 0, 0, 0>>]
        ELSE IF ~y.fin \/ n_e = 0 \/ n_g = 0
        THEN [kind |-> "nan", exc |-> "", d |-> <<0, 0, 0, 0>>]
        ELSE LET pbe == particle_balance_e(m, T_e, T_g, n_e, n_g)
                 pbg == particle_balance_g(m, T_e, T_g, n_e, n_g)
                 dy0 == ((2 * (P_abs(m, T_e, n_e, n_g) - P_loss(m, T_e, T_g, n_e, n_g)))
                            \div 3 - T_e * pbe) \div n_e
                 dy1 == ((2 * gas_heating(m, T_e, T_g, n_e, n_g)) \div 3 - T_g * pbg)
                            \div n_g
             IN  [kind |-> "ok", exc |-> "", d |-> <<dy0, dy1, pbe, pbg>>]

\* One step of solve_ivp(method = 'LSODA'): [status, exc, y].  An exception of
\* f_dy propagates; a derivative the error test cannot accept ends the run with
\* status "failed" at the last accepted sample; an accepted step moves every
\* component one quantum along its derivative.
SolverStep(m, en, y) ==
    LET r == f_dy(m, en, y)
    IN  IF r.kind = "raise" THEN [status |-> "raise", exc |-> r.exc, y |-> y]
        ELSE IF r.kind = "nan"
        THEN IF en.nanFails THEN [status |-> "failed", exc |-> "", y |-> y]
             ELSE [status |-> "ok", exc |-> "", y |-> NaNState]
        ELSE IF \E j \in 1..4 : Abs(r.d[j]) > StiffLimit
        THEN [status |-> "failed", exc |-> "", y |-> y]
        ELSE [status |-> "ok", exc |-> "",
              y |-> Finite([j \in 1..4 |-> y.v[j] + Sgn(r.d[j])])]

\* ------------------------------------------------------------------ state
VARIABLES
    self,       \* the GlobalModel object: [chem, cfg]
    config,     \* the config_dict the model was constructed from
    env,        \* the environment, an element of Envs
    currents,   \* the I_coil array handed to solve_for_I_coil
    pc,         \* "idle", "loop" (inside solve_for_I_coil), "returned"
    tpc,        \* per sweep point: "todo", "set", "solving", "solved", "done", "raised"
    ty,         \* per sweep point: the last accepted sample of its integration
    tk,         \* per sweep point: accepted steps so far
    tok,        \* per sweep point: sol.success
    p,          \* the power array
    solution,   \* the final-state array
    exc,        \* the exception that left solve_for_I_coil, "" if none
    start,      \* per sweep point: the y0 its integration started from
    evals,      \* per sweep point: the f_dy evaluations made, [y, I, kind, exc]
    powerI,     \* per sweep point: the I_coil read by P_rf, -1 before
    lastRate,   \* the latest direct call of a rate function, [n, ch, T, err, val]
    prevRate    \* the call before it

vars == <<self, config, env, currents, pc, tpc, ty, tk, tok, p, solution, exc,
          start, evals, powerI, lastRate, prevRate>>

sweepVars == <<currents, pc, tpc, ty, tk, tok, p, solution, exc, start, evals, powerI>>

Currents == {2 * j : j \in 0..MaxCur}
CurrentArrays == UNION {[1..n -> Currents] : n \in 0..MaxLen}
Points == 1..Len(currents)
NoRate == [n |-> 0, ch |-> "", T |-> 0, err |-> "", val |-> 0]
ZeroState == Finite(<<0, 0, 0, 0>>)
ZeroPower == Finite(0)

Init ==
    /\ config \in ConfigDicts
    /\ self = GlobalModel(config)
    /\ env \in Envs
    /\ currents = <<>>
    /\ pc = "idle"
    /\ tpc = <<>> /\ ty = <<>> /\ tk = <<>> /\ tok = <<>>
    /\ p = <<>> /\ solution = <<>>
    /\ exc = ""
    /\ start = <<>> /\ evals = <<>> /\ powerI = <<>>
    /\ lastRate = NoRate /\ prevRate = NoRate

\* ------------------------------------------------------- solve_for_I_coil
\* Entry: p and solution are allocated as zeros, one slot per current.
CallSweep(cs) ==
    /\ pc = "idle"
    /\ currents' = cs
    /\ pc' = "loop"
    /\ p' = [t \in 1..Len(cs) |-> ZeroPower]
    /\ solution' = [t \in 1..Len(cs) |-> ZeroState]
    /\ tpc' = [t \in 1..Len(cs) |-> "todo"]
    /\ ty' = [t \in 1..Len(cs) |-> ZeroState]
    /\ tk' = [t \in 1..Len(cs) |-> 0]
    /\ tok' = [t \in 1..Len(cs) |-> TRUE]
    /\ start' = [t \in 1..Len(cs) |-> ZeroState]
    /\ evals' = [t \in 1..Len(cs) |-> <<>>]
    /\ powerI' = [t \in 1..Len(cs) |-> -1]
    /\ UNCHANGED <<self, config, env, exc, lastRate, prevRate>>

\* The drive current point t stores on the model.
PointCurrent(t) == currents[t]

\* self.I_coil = I
SetCurrent(t) ==
    /\ pc = "loop" /\ tpc[t] = "todo"
    /\ self' = [self EXCEPT !.cfg.I_coil = PointCurrent(t)]
    /\ tpc' = [tpc EXCEPT ![t] = "set"]
    /\ UNCHANGED <<config, env, currents, pc, ty, tk, tok, p, solution, exc,
                   start, evals, powerI, lastRate, prevRate>>

\* solve starting from the final State of the latest finished point, if any.
SolveY0Carry ==
    LET done == {u \in Points : tpc[u] = "done"}
    IN  IF done = {}
        THEN Finite(<<self.cfg.T_e_0, self.cfg.T_g_0, self.cfg.n_e_0, self.cfg.n_g_0>>)
        ELSE solution[CHOOSE u \in done : \A w \in done : w <= u]

\* solve: y0 = [self.T_e_0, self.T_g_0, self.n_e_0, self.n_g_0]
SolveY0 == Finite(<<self.cfg.T_e_0, self.cfg.T_g_0, self.cfg.n_e_0, self.cfg.n_g_0>>)

\* solve, up to the call of solve_ivp.
SolveBegin(t) ==
    /\ pc = "loop" /\ tpc[t] = "set"
    /\ ty' = [ty EXCEPT ![t] = SolveY0]
    /\ start' = [start EXCEPT ![t] = SolveY0]
    /\ tk' = [tk EXCEPT ![t] = 0]
    /\ tpc' = [tpc EXCEPT ![t] = "solving"]
    /\ UNCHANGED <<self, config, env, currents, pc, tok, p, solution, exc,
                   evals, powerI, lastRate, prevRate>>

\* One solver step of point t's integration; f_dy reads self.I_coil as it is now.
\* solve hands back whatever solve_ivp returns, success or not.
DerivStep(t) ==
    /\ pc = "loop" /\ tpc[t] = "solving"
    /\ LET r == SolverStep(self, env, ty[t])
           d == f_dy(self, env, ty[t])
       IN  /\ evals' = [evals EXCEPT ![t] = Append(@,
                  [y |-> ty[t], I |-> self.cfg.I_coil, kind |-> d.kind, exc |-> d.exc])]
           /\ CASE r.status = "raise" ->
                     /\ tpc' = [tpc EXCEPT ![t] = "raised"]
                     /\ exc' = r.exc
                     /\ UNCHANGED <<ty, tk, tok>>
                [] r.status = "failed" ->
                     /\ tpc' = [tpc EXCEPT ![t] = "solved"]
                     /\ tok' = [tok EXCEPT ![t] = FALSE]
                     /\ UNCHANGED <<ty, tk, exc>>
                [] r.status = "ok" ->
                     /\ ty' = [ty EXCEPT ![t] = r.y]
                     /\ tk' = [tk EXCEPT ![t] = @ + 1]
                     /\ tpc' = [tpc EXCEPT ![t] =
                                   IF tk[t] + 1 >= NSteps THEN "solved" ELSE "solving"]
                     /\ UNCHANGED <<tok, exc>>
    /\ UNCHANGED <<self, config, env, currents, pc, p, solution, start, powerI,
                   lastRate, prevRate>>

\* The slot after the point's own, wrapping around.
SlotShifted(t) == IF t < Len(currents) THEN t + 1 ELSE 1

\* The slot of the result arrays point t writes.
Slot(t) == t

\* The absorbed power P_abs in place of P_rf.
RecordedAbsorbed(y) ==
    IF ~y.fin \/ Ke(self, "K_el", y.v[1]) # "" THEN P_rf(self, y)
    ELSE [exc |-> "", p |-> Finite(P_abs(self, y.v[1], y.v[3], y.v[4]))]

\* The power recorded for a final State: self.P_rf(T_e, T_g, n_e, n_g).
RecordedPower(y) == P_rf(self, y)

\* Lines 286-293: the last sample is read, its power computed with self.I_coil
\* as it is now, and both are stored at the point's index.
Record(t) ==
    /\ pc = "loop" /\ tpc[t] = "solved"
    /\ LET r == RecordedPower(ty[t])
       IN  /\ powerI' = [powerI EXCEPT ![t] = self.cfg.I_coil]
           /\ IF r.exc # ""
              THEN /\ tpc' = [tpc EXCEPT ![t] = "raised"]
                   /\ exc' = r.exc
                   /\ UNCHANGED <<p, solution>>
              ELSE /\ p' = [p EXCEPT ![Slot(t)] = r.p]
                   /\ solution' = [solution EXCEPT ![Slot(t)] = ty[t]]
                   /\ tpc' = [tpc EXCEPT ![t] = "done"]
                   /\ UNCHANGED exc
    /\ UNCHANGED <<self, config, env, currents, pc, ty, tk, tok, start, evals,
                   lastRate, prevRate>>

\* return p, solution
Return ==
    /\ pc = "loop"
    /\ \A t \in Points : tpc[t] = "done"
    /\ pc' = "returned"
    /\ UNCHANGED <<self, config, env, currents, tpc, ty, tk, tok, p, solution, exc,
                   start, evals, powerI, lastRate, prevRate>>

\* The for loop runs point t only after every earlier point is finished; an
\* exception in a point leaves the loop and the function.
Turn(t) == \A u \in 1..(t - 1) : tpc[u] = "done"

Next ==
    \/ \E cs \in CurrentArrays : CallSweep(cs)
    \/ \E t \in Points : Turn(t) /\ SetCurrent(t)
    \/ \E t \in Points : Turn(t) /\ SolveBegin(t)
    \/ \E t \in Points : Turn(t) /\ DerivStep(t)
    \/ \E t \in Points : Turn(t) /\ Record(t)
    \/ Return

Spec == Init /\ [][Next]_vars

\* The sweep points as concurrently interleaved tasks on the same model object,
\* each doing "set drive current; integrate; compute power".
NextPar ==
    \/ \E cs \in CurrentArrays : CallSweep(cs)
    \/ \E t \in Points : SetCurrent(t)
    \/ \E t \in Points : SolveBegin(t)
    \/ \E t \in Points : DerivStep(t)
    \/ \E t \in Points : Record(t)
    \/ Return

SpecPar == Init /\ [][NextPar]_vars

\* ------------------------------------------------- direct rate evaluation
\* A caller evaluates self.K_el / K_ex / K_iz at temperature T.
EvalRate(ch, T) ==
    /\ pc = "idle"
    /\ LET r == Rate(self.chem[ch], T)
       IN  lastRate' = [n |-> 1, ch |-> ch, T |-> T, err |-> r.err, val |-> r.val]
    /\ prevRate' = lastRate
    /\ UNCHANGED <<self, config, env>>
    /\ UNCHANGED sweepVars

NextRate == \E ch \in Channels, T \in (GridLo - 1)..(GridHi + 1) : EvalRate(ch, T)

SpecRate == Init /\ [][NextRate]_vars

\* ------------------------------------------------------------ references
\* The configured initial State, from the config_dict alone.
ConfigY0 ==
    Finite(<<config.T_e_0, config.T_g_0, config.n_e_0, load_config(config).n_g_0>>)

\* The model object with drive current I and nothing else changed since construction.
ModelWith(I) == [GlobalModel(config) EXCEPT !.cfg.I_coil = I]

RECURSIVE Integrate(_, _, _, _)
\* A whole integration from y with the drive current fixed in m: [status, exc, y].
Integrate(m, en, y, k) ==
    IF k >= NSteps THEN [status |-> "ok", exc |-> "", y |-> y]
    ELSE LET r == SolverStep(m, en, y)
         IN  IF r.status = "ok" THEN Integrate(m, en, r.y, k + 1) ELSE r

\* The integration of sweep point t run on its own with currents[t].
PointRun(t) == Integrate(ModelWith(currents[t]), env, ConfigY0, 0)

\* Point t's integration did not succeed: the solver gave up, or a derivative
\* evaluation divided by a zero density.
PointFailed(t) ==
    \/ ~tok[t]
    \/ \E j \in 1..Len(evals[t]) : evals[t][j].kind = "nan"

\* ----------------------------------------------------------------- claims

C2_FreshStart ==
    /\ \A t \in Points :
           tpc[t] \in {"solving", "solved", "done", "raised"} => start[t] = ConfigY0
    /\ SolveY0 = ConfigY0

C2_Witness ==
    /\ Len(currents) = 2
    /\ tpc[1] = "done" /\ tpc[2] \in {"solving", "solved", "done"}
    /\ solution[1].fin /\ solution[1] # ConfigY0
    /\ start[2] = ConfigY0

\* C3: after solve_for_I_coil returns, the model object (every Config field,
\* I_coil included, and the three rate functions) is as it was constructed.
C3_ConfigUntouched ==
    pc = "returned" => self = GlobalModel(config)

\* C4: with the sweep points run as interleaved tasks on the same model, every
\* derivative f_dy returns and the power computation of point t see currents[t],
\* and the results returned are those of the points run on their own.
C4_SweepDeterminism ==
    /\ \A t \in Points :
           /\ \A j \in 1..Len(evals[t]) :
                  evals[t][j].kind = "ok" => evals[t][j].I = currents[t]
           /\ powerI[t] \in {-1, currents[t]}
    /\ pc = "returned" =>
           \A t \in Points :
               /\ solution[t] = PointRun(t).y
               /\ p[t] = P_rf(ModelWith(currents[t]), PointRun(t).y).p

\* C5: a sweep that returns has recorded, against each index whose integration
\* failed, a failure (a sentinel, not an ordinary final State and power).
C5_FailureRecorded ==
    pc = "returned" =>
        \A t \in Points : PointFailed(t) => (~solution[t].fin /\ ~p[t].fin)

\* C6: solve hands back a Trajectory only for a successful integration, and a
\* final State and power are recorded only for one (stated for the runs whose
\* derivative evaluations were all finite, which only the solver can fail).
C6_FailureSurfaced ==
    \A t \in Points :
        (/\ tpc[t] \in {"solved", "done"}
         /\ \A j \in 1..Len(evals[t]) : evals[t][j].kind = "ok") => tok[t]

\* C7: for a State whose n_e or n_g is zero or negative f_dy returns no
\* derivative vector: it raises, and with every symbol of P_loss bound the
\* exception is DomainError.
C7_ZeroDensityRaises ==
    \A t \in Points : \A j \in 1..Len(evals[t]) :
        LET ev == evals[t][j]
        IN  (ev.y.fin /\ (ev.y.v[3] <= 0 \/ ev.y.v[4] <= 0))
                => (ev.kind = "raise" /\ (env.ext => ev.exc = "DomainError"))

\* C8: out of the grid the three rate functions follow one policy on both
\* sides, either all clamp to the boundary rate or all fail; calls made agree
\* with it and a repeated call gives the same outcome.
C8_PolicyFail ==
    \A ch \in Channels, T \in OutOfGrid : Rate(self.chem[ch], T).err # ""

C8_PolicyClamp ==
    \A ch \in Channels, T \in OutOfGrid :
        LET r == Rate(self.chem[ch], T)
            edge == IF T < GridLo THEN GridLo ELSE GridHi
        IN  r.err = "" /\ r.val = Rate(self.chem[ch], edge).val

C8_SinglePolicy ==
    LET out(r) == r.n = 1 /\ r.T \in OutOfGrid
    IN  /\ C8_PolicyFail \/ C8_PolicyClamp
        /\ (out(lastRate) /\ out(prevRate)) => ((lastRate.err = "") <=> (prevRate.err = ""))
        /\ (lastRate.n = 1 /\ prevRate.n = 1
                /\ lastRate.ch = prevRate.ch /\ lastRate.T = prevRate.T)
               => lastRate = prevRate

C8_Witness ==
    /\ lastRate.n = 1 /\ lastRate.ch = "K_el" /\ lastRate.T = GridLo - 1
    /\ prevRate.n = 1 /\ prevRate.ch = "K_iz" /\ prevRate.T = GridHi + 1
    /\ lastRate.err = "ValueError" /\ prevRate.err = "ValueError"

C10_NoUndefinedSymbol ==
    /\ exc # "AttributeError"
    /\ \A t \in Points : \A j \in 1..Len(evals[t]) : evals[t][j].exc # "AttributeError"

====
